---- MODULE Spec2Model ----
(***************************************************************************)
(* A model of llmplus: the transformers generation adapter                 *)
(* (Models/Cores/huggingface_core.py): the token-level stop-sequence       *)
(* matcher KeywordsStoppingCriteria, the option merging and the blocking   *)
(* and streaming paths of HuggingfaceLLM._call, and HuggingfaceCore.unload.*)
(*                                                                         *)
(* Text is a sequence of one-character strings, so that slicing, prefix    *)
(* removal and substring search are computed and not assumed.              *)
(***************************************************************************)
EXTENDS Integers, Sequences, FiniteSets, TLC

VARIABLES
    \* ---- KeywordsStoppingCriteria (SpecStop)
    stopwords,      \* self.stopwords: the stop strings handed to __init__
    enc,            \* tokenizer.encode(word, add_special_tokens=False) per stop string
    stop_ids,       \* self.stop_ids
    ksc,            \* "new" | "ready" | "IndexError": outcome of __init__
    input_ids,      \* input_ids[0].tolist() of the latest __call__
    matched,        \* result of the latest __call__ (FALSE before the first)
    \* ---- HuggingfaceCore / HuggingfaceLLM (Spec, SpecText)
    core_model,         \* core._model: "loaded" | "None"
    core_tokenizer,     \* core._tokenizer: "loaded" | "None"
    generation_config,  \* self.generation_config
    stop,               \* self.stop
    ctor,               \* the arguments __init__ was given (history)
    ctor_stop,          \* the stop list __init__ stored (history)
    handed,             \* <<gen_config>> built by the latest _call for model.generate, or <<>>
    call,               \* <<arguments and circumstances of the latest _call>>, or <<>>
    ret,                \* what the latest _call returned or raised
    backend_calls,      \* how often model.generate was invoked
    ncalls,             \* how many _call ran (capped)
    overridden,         \* whether an earlier _call was given overrides
    \* ---- the streaming session of a _call(stream=True) (SpecStream)
    s_prompt,       \* prompt of the call
    s_stop,         \* effective stop list of the call
    s_script,       \* the token ids the backend generates for the prompt
    trd,            \* the worker thread: "created" | "running" | "ended" | "finished" | "failed"
    produced,       \* the increments the worker has put, in order (history)
    text_queue,     \* streamer.text_queue: increments and the stop signal
    c_pc,           \* the consumer: "idle" | "get" | "join" | "last" | "stopped" | "exhausted" | "abandoned"
    received,       \* the increments generate() got from the streamer (history)
    buffer,         \* the truncator's cumulative text
    yielded,        \* what the truncator yielded to the caller
    \* ---- BaseTool / WebSearchTool (SpecTool)
    vectordb,       \* number of texts in self.vectordb
    searches,       \* how often self.search was invoked
    t_run,          \* <<arguments and circumstances of the latest run>>, or <<>>
    t_ret           \* what the latest run returned or raised

stopVars == <<stopwords, enc, stop_ids, ksc, input_ids, matched>>

llmVars == <<core_model, core_tokenizer, generation_config, stop, ctor, ctor_stop, handed, call, ret, backend_calls, ncalls, overridden>>

streamVars == <<s_prompt, s_stop, s_script, trd, produced, text_queue, c_pc, received, buffer, yielded>>

toolVars == <<vectordb, searches, t_run, t_ret>>

vars == <<stopVars, llmVars, streamVars, toolVars>>

-----------------------------------------------------------------------------
(* Bounds *)
MaxWordLen == 2     \* longest stop string
MaxStops == 2       \* most stop strings in a stop list
MaxEnc == 2         \* longest tokenizer encoding of a stop string
MaxIds == 3         \* longest list of generated token ids
MaxCalls == 2       \* _call invocations counted per adapter
MaxNew == 2         \* most token ids the backend generates in a blocking call
MaxScript == 3      \* most token ids the backend generates in a streaming call
MaxRuns == 2        \* runs of a tool
MaxDocs == 2        \* most documents a web search adds to the vector database

-----------------------------------------------------------------------------
(* Sequences and text *)

SeqsUpTo(S, n) == UNION {[1..k -> S] : k \in 0..n}

NonEmptySeqsUpTo(S, n) == UNION {[1..k -> S] : k \in 1..n}

RECURSIVE Concat(_)
Concat(ss) == IF ss = <<>> THEN <<>> ELSE Head(ss) \o Concat(Tail(ss))

\* Python s[i:] for 0 <= i
PyFrom(s, i) == SubSeq(s, i + 1, Len(s))

\* Python s[:-i] for 0 <= i: s[:-0] is s[:0], the empty list
PyUntilNeg(s, i) == IF i = 0 THEN <<>> ELSE SubSeq(s, 1, Len(s) - i)

\* Python s[-n:] for 0 <= n: s[-0:] is s[0:], the whole list
PyLast(s, n) == IF n = 0 \/ n >= Len(s) THEN s ELSE SubSeq(s, Len(s) - n + 1, Len(s))

IsPrefix(p, s) == Len(p) <= Len(s) /\ SubSeq(s, 1, Len(p)) = p

IsSuffix(t, s) == Len(t) <= Len(s) /\ SubSeq(s, Len(s) - Len(t) + 1, Len(s)) = t

\* t occurs in s starting at position i (1-based)
OccursAt(t, s, i) == i >= 1 /\ i + Len(t) - 1 <= Len(s) /\ SubSeq(s, i, i + Len(t) - 1) = t

Contains(s, t) == \E i \in 1..(Len(s) + 1) : OccursAt(t, s, i)

-----------------------------------------------------------------------------
(* The tokenizer of the stop-sequence matcher: an external capability.  A   *)
(* token id decodes to a piece of text, possibly to nothing (a marker such  *)
(* as a word-boundary prefix that decode drops); decode joins the pieces.   *)
(* encode is not the inverse of decode: its result is any id list.          *)

StopChars == {"a", "b"}

TokenIds == 1..4

\* the ids the text paths add: "|" and one special token (such as the EOS
\* token), whose text is written "#"
BarId == 5
SpecialId == 6

Vocab(id) == CASE id = 1 -> <<"a">>
               [] id = 2 -> <<"b">>
               [] id = 3 -> <<>>
               [] id = 4 -> <<"a", "b">>
               [] id = BarId -> <<"|">>
               [] OTHER -> <<"#">>

RECURSIVE decode(_)
decode(ids) == IF ids = <<>> THEN <<>> ELSE Vocab(Head(ids)) \o decode(Tail(ids))

StopWordSet == NonEmptySeqsUpTo(StopChars, MaxWordLen)

\* stop lists: distinct, non-empty stop strings
StopLists(W, n) == {l \in NonEmptySeqsUpTo(W, n) : \A i, j \in 1..Len(l) : l[i] = l[j] => i = j}

-----------------------------------------------------------------------------
(* KeywordsStoppingCriteria.get_min_ids *)

\* for i in range(len(ids)): temp = ids[i:] ... else: break
RECURSIVE HeadLoop(_, _, _, _)
HeadLoop(ids, word, i, effective) ==
    IF i >= Len(ids) THEN effective
    ELSE LET temp == PyFrom(ids, i)
         IN IF decode(temp) = word
            THEN HeadLoop(ids, word, i + 1, Append(effective, temp))
            ELSE effective

\* the slice the second loop decodes: temp = ids[:-i]
TailSlice(ids, i) == PyUntilNeg(ids, i)

\* for i in range(len(ids)): temp = ids[:-i] ... else: break
RECURSIVE TailLoop(_, _, _, _)
TailLoop(ids, word, i, effective) ==
    IF i >= Len(ids) THEN effective
    ELSE LET temp == TailSlice(ids, i)
         IN IF decode(temp) = word
            THEN TailLoop(ids, word, i + 1, Append(effective, temp))
            ELSE effective

\* effective.sort(key=len) is stable: effective[0] is the first of the shortest
FirstShortest(effective) ==
    LET m == CHOOSE i \in 1..Len(effective) :
                 /\ \A j \in 1..Len(effective) : Len(effective[i]) <= Len(effective[j])
                 /\ \A j \in 1..(i - 1) : Len(effective[j]) > Len(effective[i])
    IN effective[m]

Effective(ids, word) == TailLoop(ids, word, 0, HeadLoop(ids, word, 0, <<>>))

\* effective[0][1] raises IndexError on an empty candidate list
get_min_ids(ids, word) ==
    LET effective == Effective(ids, word)
    IN IF effective = <<>> THEN [err |-> "IndexError", ids |-> <<>>]
       ELSE [err |-> "none", ids |-> FirstShortest(effective)]

-----------------------------------------------------------------------------
(* KeywordsStoppingCriteria.__call__ *)

CompFirst(input_list, last) == SubSeq(input_list, 1, last)
Comp(input_list, last) == PyLast(input_list, last)

RECURSIVE CallLoop(_, _, _)
CallLoop(ids_list, input_list, k) ==
    IF k > Len(ids_list) THEN FALSE
    ELSE LET i == ids_list[k]
             last == Len(i)
         IN IF Len(input_list) >= last /\ Comp(input_list, last) = i
            THEN TRUE
            ELSE CallLoop(ids_list, input_list, k + 1)

KeywordsCall(ids_list, input_list) == CallLoop(ids_list, input_list, 1)


-----------------------------------------------------------------------------
(* Text of the adapter: the tokenizer on prompts and generated ids, and    *)
(* the truncation of the blocking path.                                     *)

Chars == {"a", "b", "|", "#"}

CharId(c) == CASE c = "a" -> 1
               [] c = "b" -> 2
               [] c = "|" -> BarId
               [] OTHER -> SpecialId

CharIds(text) == [i \in 1..Len(text) |-> CharId(text[i])]

\* tokenizer(prompt).input_ids: special tokens are added (a leading one), and
\* the text of a special token inside the prompt becomes that token
PromptIds(prompt) == <<SpecialId>> \o CharIds(prompt)

NotSpecial(id) == id # SpecialId

\* tokenizer.decode(ids, skip_special_tokens=True)
DecodeSkip(ids) == decode(SelectSeq(ids, NotSpecial))

\* str.removeprefix
RemovePrefix(text, p) == IF IsPrefix(p, text) THEN SubSeq(text, Len(p) + 1, Len(text)) ELSE text

\* "|".join(stop)
RECURSIVE JoinBar(_)
JoinBar(l) == IF l = <<>> THEN <<>> ELSE IF Len(l) = 1 THEN l[1] ELSE l[1] \o <<"|">> \o JoinBar(Tail(l))

\* the alternatives of a regular expression made of literal characters and
\* "|": the pieces between the bars, empty pieces included
RECURSIVE Alternatives(_, _)
Alternatives(pattern, cur) ==
    IF pattern = <<>> THEN <<cur>>
    ELSE IF Head(pattern) = "|" THEN <<cur>> \o Alternatives(Tail(pattern), <<>>)
    ELSE Alternatives(Tail(pattern), Append(cur, Head(pattern)))

\* the positions (1-based) at which one of the texts of l occurs in text
MatchStarts(text, l) == {i \in 1..(Len(text) + 1) : \E k \in 1..Len(l) : OccursAt(l[k], text, i)}

SetMin(S) == CHOOSE x \in S : \A y \in S : x <= y

\* text[:p] for the leftmost position of P, the whole text when P is empty
CutAtFirst(text, P) == IF P = {} THEN text ELSE SubSeq(text, 1, SetMin(P) - 1)

\* langchain.llms.utils.enforce_stop_tokens:
\*     re.split("|".join(stop), text, maxsplit=1)[0]
\* the stop strings are joined into a pattern without escaping, the text is
\* split at the leftmost match of the pattern (an empty match included)
enforce_stop_tokens(text, l) == CutAtFirst(text, MatchStarts(text, Alternatives(JoinBar(l), <<>>)))

-----------------------------------------------------------------------------
(* HuggingfaceLLM.__init__ and the option merging of _call.  Fractions are  *)
(* written in hundredths: temperature 0.8 is 80, top_p 0.95 is 95.          *)

TempSentinel == 1       \* 0.01

OptionKeys == {"max_new_tokens", "top_p", "top_k", "repetition_penalty"}

\* generation_config = dict(...)
GenerationConfigOf(a) ==
    [temperature |-> IF a.temperature # 0 THEN a.temperature ELSE TempSentinel,
     do_sample |-> IF a.temperature = 0 THEN FALSE ELSE TRUE,
     max_new_tokens |-> a.max_new_tokens,
     top_p |-> a.top_p,
     top_k |-> a.top_k,
     repetition_penalty |-> a.repetition_penalty]

\* if k == 'temperature': if v > 0: ... else: ...
TemperatureIgnoringZero(v, gc) == IF v > 0 THEN [temperature |-> v, do_sample |-> TRUE] ELSE [temperature |-> gc.temperature, do_sample |-> gc.do_sample]
TemperatureOverride(v, gc) == IF v > 0 THEN [temperature |-> v, do_sample |-> TRUE] ELSE [temperature |-> TempSentinel, do_sample |-> FALSE]

\* kwargs is a record of optional values: <<>> for a keyword that is not
\* given, <<v>> for one given as v
Given(kwargs, k) == kwargs[k] # <<>>

\* for k, v in kwargs.items(): ...   (keys other than the five are skipped)
MergeKwargs(gc, kwargs) ==
    [k \in DOMAIN gc |->
        IF k \in {"temperature", "do_sample"}
        THEN IF Given(kwargs, "temperature")
             THEN TemperatureOverride(kwargs.temperature[1], gc)[k]
             ELSE gc[k]
        ELSE IF Given(kwargs, k) THEN kwargs[k][1] ELSE gc[k]]

\* gen_config = self.generation_config.copy(): what the stored dict holds
\* after the writes to gen_config
StoredAliased(stored, local) == local
StoredAfterCopy(stored, local) == stored

\* get_stop_words(stop, tokenizer, add_newline_version=False, ...) of _call:
\* the stop specification of the list given: its distinct non-empty strings
RECURSIVE get_stop_words(_)
get_stop_words(l) ==
    IF l = <<>> THEN <<>>
    ELSE LET rest == get_stop_words(SubSeq(l, 1, Len(l) - 1))
             w == l[Len(l)]
         IN IF w = <<>> \/ \E i \in 1..Len(rest) : rest[i] = w THEN rest ELSE Append(rest, w)

\* the encodings tokenizer.encode may give a stop string: its characters'
\* ids, those with a marker id before or after, or nothing at all
EncodeVariants(word) == {CharIds(word), <<3>> \o CharIds(word), CharIds(word) \o <<3>>, <<>>}

\* KeywordsStoppingCriteria(stop, tokenizer): "ready", or "IndexError" when
\* get_min_ids raises for the encoding of one of the stop strings
KscOutcomes(l) ==
    (IF \A k \in 1..Len(l) : \E e \in EncodeVariants(l[k]) : get_min_ids(e, l[k]).err = "none"
     THEN {"ready"} ELSE {})
    \cup
    (IF \E k \in 1..Len(l) : \E e \in EncodeVariants(l[k]) : get_min_ids(e, l[k]).err # "none"
     THEN {"IndexError"} ELSE {})

\* stop = get_stop_words(stop, ...) if stop is not None else self.stop
EffectiveStop(stopArg) == IF stopArg # <<>> THEN get_stop_words(stopArg[1]) ELSE stop

\* the blocking pipe and the truncation of its output:
\*   tokenizer.decode(output[0], skip_special_tokens=True).removeprefix(prompt)
\*   enforce_stop_tokens(output, stop)
\* where output[0] is the prompt's ids followed by the generated ids
BlockingText(prompt, ids, l) ==
    enforce_stop_tokens(RemovePrefix(DecodeSkip(PromptIds(prompt) \o ids), prompt), l)

NoReturn == [kind |-> "none", err |-> "", text |-> <<>>]
Raised(e) == [kind |-> "error", err |-> e, text |-> <<>>]
Returned(t) == [kind |-> "text", err |-> "", text |-> t]
ReturnedIterator == [kind |-> "iterator", err |-> "", text |-> <<>>]

\* HuggingfaceLLM._call(prompt, stop, **kwargs), with the outcomes of what it
\* calls: kscOutcome of KeywordsStoppingCriteria(stop, tokenizer), backend.ok
\* whether model.generate returned and backend.ids what it generated
_call(prompt, stopArg, kwargs, kscOutcome, backend) ==
    LET eff_stop == EffectiveStop(stopArg)
        stream == IF Given(kwargs, "stream") THEN kwargs.stream[1] ELSE FALSE
        gen_config == MergeKwargs(generation_config, kwargs)
        unloaded == core_tokenizer = "None"
        raw == DecodeSkip(PromptIds(prompt) \o backend.ids)
        info == [prompt |-> prompt, stopArg |-> stopArg, kwargs |-> kwargs, stop |-> eff_stop,
                 unloaded |-> unloaded, raw |-> <<>>]
    IN /\ ncalls' = ncalls + 1
       /\ overridden' = (overridden \/ stopArg # <<>> \/ \E k \in DOMAIN kwargs : Given(kwargs, k))
       /\ generation_config' = StoredAfterCopy(generation_config, gen_config)
       /\ UNCHANGED <<core_model, core_tokenizer, stop, ctor, ctor_stop>>
       /\ IF unloaded
          THEN \* KeywordsStoppingCriteria(stop, None): None has no encode
               /\ ret' = Raised("AttributeError")
               /\ call' = <<info>>
               /\ handed' = <<>>
               /\ UNCHANGED backend_calls
          ELSE IF kscOutcome # "ready"
          THEN /\ ret' = Raised(kscOutcome)
               /\ call' = <<info>>
               /\ handed' = <<>>
               /\ UNCHANGED backend_calls
          ELSE IF stream
          THEN \* the worker is not started before the first pull
               /\ ret' = ReturnedIterator
               /\ call' = <<info>>
               /\ handed' = <<gen_config>>
               /\ UNCHANGED backend_calls
          ELSE /\ backend_calls' = backend_calls + 1
               /\ handed' = <<gen_config>>
               /\ call' = <<[info EXCEPT !.raw = IF backend.ok THEN raw ELSE <<>>]>>
               /\ ret' = IF backend.ok
                         THEN Returned(BlockingText(prompt, backend.ids, eff_stop))
                         ELSE Raised("BackendException")

\* HuggingfaceCore.unload
unload ==
    /\ core_model # "None"
    /\ core_model' = "None"
    /\ core_tokenizer' = "None"
    /\ UNCHANGED <<generation_config, stop, ctor, ctor_stop, handed, call, ret, backend_calls, ncalls, overridden>>

-----------------------------------------------------------------------------
(* SpecStop: a matcher is built for a stop list and called on id lists *)

\* the tools' variables while no tool is exercised; every specification but
\* SpecTool starts with them
ToolIdle == vectordb = 0 /\ searches = 0 /\ t_run = <<>> /\ t_ret = "none"

\* the session's variables while no stream is exercised
StreamIdle ==
    /\ ToolIdle
    /\ s_prompt = <<>> /\ s_stop = <<>> /\ s_script = <<>>
    /\ trd = "created" /\ produced = <<>> /\ text_queue = <<>>
    /\ c_pc = "idle" /\ received = <<>> /\ buffer = <<>> /\ yielded = <<>>

\* the adapter's variables while only the matcher is exercised
LlmIdle ==
    /\ core_model = "loaded" /\ core_tokenizer = "loaded"
    /\ generation_config = <<>> /\ stop = <<>> /\ ctor = <<>> /\ ctor_stop = <<>>
    /\ handed = <<>> /\ call = <<>> /\ ret = <<>>
    /\ backend_calls = 0 /\ ncalls = 0 /\ overridden = FALSE

StopInit ==
    /\ LlmIdle
    /\ StreamIdle
    /\ stopwords \in StopLists(StopWordSet, MaxStops)
    /\ enc = <<>>
    /\ stop_ids = <<>>
    /\ ksc = "new"
    /\ input_ids = <<>>
    /\ matched = FALSE

\* __init__: stop_ids = list(map(get_min_ids, stop_words))
KscInit ==
    /\ ksc = "new"
    /\ \E e \in [1..Len(stopwords) -> SeqsUpTo(TokenIds, MaxEnc)] :
         LET r == [k \in 1..Len(stopwords) |-> get_min_ids(e[k], stopwords[k])]
         IN /\ enc' = e
            /\ IF \E k \in 1..Len(stopwords) : r[k].err # "none"
               THEN ksc' = "IndexError" /\ stop_ids' = <<>>
               ELSE ksc' = "ready" /\ stop_ids' = [k \in 1..Len(stopwords) |-> r[k].ids]
    /\ UNCHANGED <<stopwords, input_ids, matched>>
    /\ UNCHANGED <<llmVars, streamVars, toolVars>>

\* the generation loop calls the criteria after every new token id, on all
\* the ids so far
KscCall ==
    /\ ksc = "ready"
    /\ Len(input_ids) < MaxIds
    /\ \E id \in TokenIds :
         /\ input_ids' = Append(input_ids, id)
         /\ matched' = KeywordsCall(stop_ids, input_ids')
    /\ UNCHANGED <<stopwords, enc, stop_ids, ksc>>
    /\ UNCHANGED <<llmVars, streamVars, toolVars>>

StopNext == KscInit \/ KscCall

SpecStop == StopInit /\ [][StopNext]_vars

-----------------------------------------------------------------------------
(* Spec: an adapter is constructed, then called with any keyword overrides, *)
(* and its core unloaded at any time.                                       *)

\* the matcher's variables while the adapter is exercised
StopIdle ==
    /\ stopwords = <<>> /\ enc = <<>> /\ stop_ids = <<>>
    /\ ksc = "new" /\ input_ids = <<>> /\ matched = FALSE

Opt(S) == {<<>>} \cup {<<v>> : v \in S}

\* the defaults of HuggingfaceLLM.__init__ but for the temperature, and
\* another choice of the four
CtorOthers ==
    {[max_new_tokens |-> 2048, top_p |-> 95, top_k |-> 40, repetition_penalty |-> 110],
     [max_new_tokens |-> 16, top_p |-> 50, top_k |-> 5, repetition_penalty |-> 100]}

CtorArgs(T) ==
    {[temperature |-> t, max_new_tokens |-> o.max_new_tokens, top_p |-> o.top_p, top_k |-> o.top_k,
      repetition_penalty |-> o.repetition_penalty] : t \in T, o \in CtorOthers}

\* keyword arguments: any temperature of T or none, stream or not, and of
\* the other four none, any one, or all
KwargsSet(T) ==
    {kw \in [temperature : Opt(T), max_new_tokens : Opt({32}), top_p : Opt({90}), top_k : Opt({10}),
             repetition_penalty : Opt({120}), stream : Opt({TRUE})] :
        Cardinality({k \in OptionKeys : kw[k] # <<>>}) \in {0, 1, 4}}

NoKwargs == [temperature |-> <<>>, max_new_tokens |-> <<>>, top_p |-> <<>>, top_k |-> <<>>, repetition_penalty |-> <<>>, stream |-> <<>>]

Backends(G, n) == {[ok |-> TRUE, ids |-> g] : g \in SeqsUpTo(G, n)} \cup {[ok |-> FALSE, ids |-> <<>>]}

\* the state __init__ leaves: generation_config, self.stop
Constructed(a, l) ==
    /\ core_model = "loaded" /\ core_tokenizer = "loaded"
    /\ ctor = a
    /\ generation_config = GenerationConfigOf(a)
    /\ ctor_stop = l
    /\ stop = l
    /\ handed = <<>> /\ call = <<>> /\ ret = NoReturn
    /\ backend_calls = 0 /\ ncalls = 0 /\ overridden = FALSE

Init ==
    /\ StopIdle
    /\ StreamIdle
    /\ \E a \in CtorArgs({0, 80}), l \in {<<<<"a">>>>, <<<<"b">>, <<"a", "b">>>>} : Constructed(a, l)

Call ==
    /\ ncalls < MaxCalls
    /\ \E stopArg \in Opt({<<<<"b">>>>}) :
         \E k \in KscOutcomes(EffectiveStop(stopArg)) :
           \E kwargs \in KwargsSet({0, 50}), backend \in Backends({1}, 1) :
             _call(<<"a">>, stopArg, kwargs, k, backend)
    /\ UNCHANGED <<stopVars, streamVars, toolVars>>

Unload == unload /\ UNCHANGED <<stopVars, streamVars, toolVars>>

Next == Call \/ Unload

Spec == Init /\ [][Next]_vars

-----------------------------------------------------------------------------
(* SpecOpts: an adapter constructed with, and called with, generation       *)
(* parameters inside and outside their ranges.                              *)

\* __init__ arguments: a negative temperature, max_new_tokens of 0, top_p of
\* 0 and 1.5, top_k of 0, beside values in range
OptsCtorArgs ==
    [temperature : {0 - 50, 0, 80}, max_new_tokens : {0, 2048}, top_p : {0, 95, 150}, top_k : {0, 40},
     repetition_penalty : {110}]

\* keyword arguments of _call, in and out of range
OptsKwargs ==
    [temperature : Opt({0 - 50, 50}), max_new_tokens : Opt({0, 32}), top_p : Opt({150}), top_k : Opt({0}),
     repetition_penalty : {<<>>}, stream : Opt({TRUE})]

OptsInit ==
    /\ StopIdle
    /\ StreamIdle
    /\ \E a \in OptsCtorArgs : Constructed(a, <<<<"a">>>>)

\* one call, with a tokenizer that encodes the stop string faithfully
OptsCall ==
    /\ ncalls = 0
    /\ \E kwargs \in OptsKwargs, backend \in Backends({1}, 1) :
         _call(<<"a">>, <<>>, kwargs, "ready", backend)
    /\ UNCHANGED <<stopVars, streamVars, toolVars>>

OptsNext == OptsCall \/ Unload

SpecOpts == OptsInit /\ [][OptsNext]_vars

-----------------------------------------------------------------------------
(* SpecText: the text of the blocking path, for every prompt, stop list and *)
(* generated ids within the bounds.                                         *)

TextStopWords == {<<"a">>, <<"b">>, <<"a", "b">>, <<"b", "a">>, <<"#">>, <<"a", "|", "b">>}

TextStopLists == StopLists(TextStopWords, MaxStops)

TextPrompts == {<<>>, <<"a">>, <<"#", "a">>}

GenIds == {1, 2, BarId, SpecialId}

\* HuggingfaceLLM(core) with the defaults of __init__
DefaultArgs == [temperature |-> 0, max_new_tokens |-> 2048, top_p |-> 95, top_k |-> 40, repetition_penalty |-> 110]

TextInit ==
    /\ StopIdle
    /\ StreamIdle
    /\ \E l \in TextStopLists : Constructed(DefaultArgs, l)

\* one call of each adapter
TextCall ==
    /\ ncalls = 0
    /\ \E stopArg \in Opt({<<<<"b">>, <<"b">>, <<>>>>}) :
         \E k \in KscOutcomes(EffectiveStop(stopArg)) :
           \E prompt \in TextPrompts, backend \in Backends(GenIds, MaxNew) :
             _call(prompt, stopArg, NoKwargs, k, backend)
    /\ UNCHANGED <<stopVars, streamVars, toolVars>>

TextNext == TextCall \/ Unload

SpecText == TextInit /\ [][TextNext]_vars

-----------------------------------------------------------------------------
(* SpecStream: the session of a streaming _call.  The worker thread runs   *)
(* pipe(prompt): model.generate puts every increment into the streamer's    *)
(* queue and the stop signal at the end.  The consumer pulls from           *)
(* textgen_iterator(generate(), stop), which pulls from generate(), which   *)
(* pulls from the streamer.                                                 *)

StreamIds == {1, 2, 4, SpecialId}

StreamStopWords == {<<"a">>, <<"b">>, <<"a", "b">>, <<"b", "a">>, <<"#">>, <<"a", "|", "b">>, <<"a", "b", "a">>}

\* TextIteratorStreamer decodes without skip_special_tokens: the text of a
\* special token is part of the increment
Increment(id) == decode(<<id>>)

TextItem(t) == [end |-> FALSE, text |-> t]
StopSignal == [end |-> TRUE, text |-> <<>>]

\* Queue.put / Queue.get: first in, first out
QueuePutFront(q, x) == <<x>> \o q
QueuePut(q, x) == Append(q, x)

\* for i in gen_config['streamer']: yield i
YieldNothing(i) == <<>>
Yield(i) == i

StreamInit ==
    /\ StopIdle
    /\ LlmIdle
    /\ ToolIdle
    /\ s_prompt \in {<<"a">>, <<"#", "a">>}
    /\ s_stop \in StopLists(StreamStopWords, MaxStops)
    /\ s_script \in SeqsUpTo(StreamIds, MaxScript)
    /\ trd = "created" /\ produced = <<>> /\ text_queue = <<>>
    /\ c_pc = "idle" /\ received = <<>> /\ buffer = <<>> /\ yielded = <<>>

\* the truncator takes an increment: it yields the text before the first
\* stop string and ends as soon as its buffer holds one
Truncate(inc) ==
    LET b == buffer \o inc
    IN /\ buffer' = b
       /\ IF MatchStarts(b, s_stop) # {}
          THEN yielded' = Append(yielded, CutAtFirst(b, MatchStarts(b, s_stop))) /\ c_pc' = "stopped"
          ELSE UNCHANGED <<yielded, c_pc>>

\* first pull: generate() starts: trd.start()
GenStart ==
    /\ c_pc = "idle"
    /\ c_pc' = "get"
    /\ trd' = "running"
    /\ UNCHANGED <<s_prompt, s_stop, s_script, produced, text_queue, received, buffer, yielded>>
    /\ UNCHANGED <<stopVars, llmVars, toolVars>>

\* the for loop of generate(): the streamer's __next__ blocks on the queue
GenGetText ==
    /\ c_pc = "get"
    /\ text_queue # <<>>
    /\ ~Head(text_queue).end
    /\ text_queue' = Tail(text_queue)
    /\ received' = Append(received, Head(text_queue).text)
    /\ Truncate(Yield(Head(text_queue).text))
    /\ UNCHANGED <<s_prompt, s_stop, s_script, trd, produced>>
    /\ UNCHANGED <<stopVars, llmVars, toolVars>>

\* the stop signal ends the for loop
GenGetEnd ==
    /\ c_pc = "get"
    /\ text_queue # <<>>
    /\ Head(text_queue).end
    /\ text_queue' = Tail(text_queue)
    /\ c_pc' = "join"
    /\ UNCHANGED <<s_prompt, s_stop, s_script, trd, produced, received, buffer, yielded>>
    /\ UNCHANGED <<stopVars, llmVars, toolVars>>

\* Thread.join returns once the thread has ended
JoinedAtOnce(t) == TRUE
Joined(t) == t \in {"finished", "failed"}

\* trd.join() returns once the thread has ended
GenJoin ==
    /\ c_pc = "join"
    /\ Joined(trd)
    /\ c_pc' = "last"
    /\ UNCHANGED <<s_prompt, s_stop, s_script, trd, produced, text_queue, received, buffer, yielded>>
    /\ UNCHANGED <<stopVars, llmVars, toolVars>>

\* yield '' and the end of generate(): the truncator yields its buffer
GenLast ==
    /\ c_pc = "last"
    /\ c_pc' = "exhausted"
    /\ yielded' = Append(yielded, buffer \o Yield(<<>>))
    /\ UNCHANGED <<s_prompt, s_stop, s_script, trd, produced, text_queue, received, buffer>>
    /\ UNCHANGED <<stopVars, llmVars, toolVars>>

\* the caller stops iterating (leaves its loop, drops the iterator): nothing
\* is raised, generate() is not resumed and reads the queue no more
Abandon ==
    /\ c_pc \in {"idle", "get"}
    /\ c_pc' = "abandoned"
    /\ UNCHANGED <<s_prompt, s_stop, s_script, trd, produced, text_queue, received, buffer, yielded>>
    /\ UNCHANGED <<stopVars, llmVars, toolVars>>

\* model.generate produces the next increment: streamer.put
WorkerPut ==
    /\ trd = "running"
    /\ Len(produced) < Len(s_script)
    /\ LET inc == Increment(s_script[Len(produced) + 1])
       IN /\ produced' = Append(produced, inc)
          /\ text_queue' = QueuePut(text_queue, TextItem(inc))
    /\ UNCHANGED <<s_prompt, s_stop, s_script, trd, c_pc, received, buffer, yielded>>
    /\ UNCHANGED <<stopVars, llmVars, toolVars>>

\* model.generate ends: streamer.end() puts the stop signal
WorkerEnd ==
    /\ trd = "running"
    /\ Len(produced) = Len(s_script)
    /\ text_queue' = QueuePut(text_queue, StopSignal)
    /\ trd' = "ended"
    /\ UNCHANGED <<s_prompt, s_stop, s_script, produced, c_pc, received, buffer, yielded>>
    /\ UNCHANGED <<stopVars, llmVars, toolVars>>

\* pipe returns and the thread ends
WorkerExit ==
    /\ trd = "ended"
    /\ trd' = "finished"
    /\ UNCHANGED <<s_prompt, s_stop, s_script, produced, text_queue, c_pc, received, buffer, yielded>>
    /\ UNCHANGED <<stopVars, llmVars, toolVars>>

\* pipe raises (the tokenizer or model.generate fails): the thread ends with
\* the exception, nothing is put
WorkerFail ==
    /\ trd = "running"
    /\ trd' = "failed"
    /\ UNCHANGED <<s_prompt, s_stop, s_script, produced, text_queue, c_pc, received, buffer, yielded>>
    /\ UNCHANGED <<stopVars, llmVars, toolVars>>

Consumer == GenStart \/ GenGetText \/ GenGetEnd \/ GenJoin \/ GenLast \/ Abandon

Worker == WorkerPut \/ WorkerEnd \/ WorkerExit \/ WorkerFail

StreamNext == Consumer \/ Worker

SpecStream == StreamInit /\ [][StreamNext]_vars

\* SpecStreamFair: the session under fair scheduling: a caller that keeps
\* pulling is resumed whenever it can go on, and the worker thread is
\* scheduled as long as it has a step to take; failing and the caller's
\* stopping are not forced
FairStopWords == {<<"a">>, <<"b", "a">>, <<"#">>}

StreamFairInit ==
    /\ StopIdle
    /\ LlmIdle
    /\ ToolIdle
    /\ s_prompt = <<"a">>
    /\ s_stop \in StopLists(FairStopWords, MaxStops)
    /\ s_script \in SeqsUpTo(StreamIds, MaxScript)
    /\ trd = "created" /\ produced = <<>> /\ text_queue = <<>>
    /\ c_pc = "idle" /\ received = <<>> /\ buffer = <<>> /\ yielded = <<>>

Pulling == GenStart \/ GenGetText \/ GenGetEnd \/ GenJoin \/ GenLast

Generating == WorkerPut \/ WorkerEnd \/ WorkerExit

SpecStreamFair == StreamFairInit /\ [][StreamNext]_vars /\ WF_vars(Pulling) /\ WF_vars(Generating)

-----------------------------------------------------------------------------
(* SpecTool: BaseTool.run and WebSearchTool.run.  The search engine, the    *)
(* language model and the vector database are external: a search yields     *)
(* some documents, which run adds to the database.                          *)

ReturnTypes == {"response", "vectordb", "chunks"}

\* the arguments of run that decide its control flow: whether history,
\* prompt_template and llm are given (not None), and the flags
RunArgs ==
    [history : BOOLEAN, prompt_template : BOOLEAN, llm : BOOLEAN, stream : BOOLEAN,
     generate_query : BOOLEAN, return_type : ReturnTypes]

\* BaseTool.run
BaseToolRun(a) ==
    IF a.history /\ ~a.prompt_template THEN "ValueError" ELSE "Base tool output."

\* WebSearchTool.run up to the search: the error it raises, or "none"
QueryStep(a) ==
    IF ~a.generate_query THEN "none"
    ELSE IF a.history /\ a.prompt_template THEN (IF a.llm THEN "none" ELSE "TypeError")
    ELSE IF a.prompt_template THEN (IF a.llm THEN "none" ELSE "TypeError")
    ELSE IF a.history THEN "ValueError"
    ELSE IF a.llm THEN "none" ELSE "TypeError"

\* prompt_template after the query step: the default template replaces None
\* only where a query is generated
TemplateAfterQuery(a) == a.prompt_template \/ a.generate_query

\* WebSearchTool.run after the contents were stored
ResponseStep(a) ==
    IF a.return_type = "vectordb" THEN "vectordb"
    ELSE IF a.return_type = "chunks" THEN "chunks"
    ELSE IF ~TemplateAfterQuery(a) THEN "AttributeError"     \* None.create_prompt
    ELSE IF a.llm THEN (IF a.stream THEN "iterator" ELSE "text")
    ELSE IF a.stream THEN "AttributeError"                   \* None.stream
    ELSE "TypeError"                                         \* None(prompt, stop)

\* WebSearchTool.__init__: VectorDatabase.from_empty
ToolInit ==
    /\ StopIdle
    /\ LlmIdle
    /\ StreamIdle

BaseRun ==
    /\ \E a \in RunArgs :
         /\ t_run' = <<[tool |-> "base", args |-> a, db_before |-> vectordb, searches_before |-> searches]>>
         /\ t_ret' = BaseToolRun(a)
    /\ UNCHANGED <<vectordb, searches>>
    /\ UNCHANGED <<stopVars, llmVars, streamVars>>

WebRun ==
    /\ searches < MaxRuns
    /\ \E a \in RunArgs, docs \in 0..MaxDocs :
         /\ t_run' = <<[tool |-> "web", args |-> a, db_before |-> vectordb, searches_before |-> searches]>>
         /\ IF QueryStep(a) # "none"
            THEN /\ t_ret' = QueryStep(a)
                 /\ UNCHANGED <<vectordb, searches>>
            ELSE /\ searches' = searches + 1
                 /\ vectordb' = vectordb + docs
                 /\ t_ret' = ResponseStep(a)
    /\ UNCHANGED <<stopVars, llmVars, streamVars>>

ToolNext == BaseRun \/ WebRun

SpecTool == ToolInit /\ [][ToolNext]_vars

-----------------------------------------------------------------------------
(* Claims about the stop-sequence matcher (SpecStop) *)

\* C1: the matcher returns true exactly when the generated id list ends with
\* at least one of the derived stop id sequences; in particular it returns
\* false on a list shorter than every sequence and on a suffix that differs
\* in one id.
C1_MatcherIffEndsWith ==
    (ksc = "ready" /\ input_ids # <<>>) =>
        (matched = (\E k \in 1..Len(stop_ids) : IsSuffix(stop_ids[k], input_ids)))

\* a call that matched the second of two sequences of different lengths
C1_Witness ==
    /\ ksc = "ready" /\ matched = TRUE
    /\ Len(stop_ids) = 2
    /\ Len(stop_ids[1]) # Len(stop_ids[2])
    /\ ~IsSuffix(stop_ids[1], input_ids)
    /\ IsSuffix(stop_ids[2], input_ids)
    /\ Len(input_ids) > Len(stop_ids[2])

\* the trimmings of the naive encoding: ids removed from the head, or from
\* the tail
Trimmings(ids) == {PyFrom(ids, i) : i \in 0..Len(ids)} \cup {SubSeq(ids, 1, Len(ids) - i) : i \in 0..Len(ids)}

\* C2: the sequence get_min_ids returns decodes to exactly the stop string,
\* and no strictly shorter trimming of the naive encoding (from the head, or
\* from the tail) also decodes to exactly the stop string.
C2_CanonicalIsMinimal ==
    ksc = "ready" =>
        \A k \in 1..Len(stopwords) :
            /\ decode(stop_ids[k]) = stopwords[k]
            /\ \A t \in Trimmings(enc[k]) :
                   decode(t) = stopwords[k] => Len(t) >= Len(stop_ids[k])

-----------------------------------------------------------------------------
(* Claims about the adapter (Spec, SpecText) *)

\* C6: after unload(), every generate call fails with the dedicated
\* AdapterUnloaded error, and neither invokes the backend nor returns text.
C6_UnloadedCallFailsAdapterUnloaded ==
    (call # <<>> /\ call[1].unloaded) =>
        /\ ret.kind = "error" /\ ret.err = "AdapterUnloaded"
        /\ handed = <<>>

\* the temperature a call asks for: the override when given, else the default
EffectiveTemperature == IF Given(call[1].kwargs, "temperature") THEN call[1].kwargs.temperature[1] ELSE ctor.temperature

\* C7: in the options built for the backend, max_new_tokens, top_p, top_k and
\* repetition_penalty are the per-call override when one is given and the
\* construction-time default otherwise, and so is the temperature, except
\* that an effective temperature of exactly 0 gives the sentinel temperature
\* with sampling disabled, whatever the other parameters.
C7_OptionsMerged ==
    handed # <<>> =>
        /\ \A k \in OptionKeys :
              handed[1][k] = IF Given(call[1].kwargs, k) THEN call[1].kwargs[k][1] ELSE ctor[k]
        /\ IF EffectiveTemperature = 0
           THEN handed[1].temperature = TempSentinel /\ handed[1].do_sample = FALSE
           ELSE handed[1].temperature = EffectiveTemperature

\* default temperature 0.8 overridden with temperature=0, the other four given
C7_Witness ==
    /\ handed # <<>>
    /\ ctor.temperature = 80
    /\ call[1].kwargs.temperature = <<0>>
    /\ \A k \in OptionKeys : Given(call[1].kwargs, k)
    /\ handed[1].temperature = TempSentinel
    /\ handed[1].do_sample = FALSE
    /\ handed[1].top_k = 10
    /\ ret.kind = "text"

\* C8: whatever calls were made with whatever overrides, the stored default
\* options and the stored default stop list are those of the construction,
\* and a call without overrides uses exactly them.
C8_DefaultsUnchanged ==
    /\ generation_config = GenerationConfigOf(ctor)
    /\ stop = ctor_stop
    /\ (handed # <<>> /\ call[1].stopArg = <<>> /\ call[1].kwargs \in {NoKwargs, [NoKwargs EXCEPT !.stream = <<TRUE>>]}) =>
           (handed[1] = GenerationConfigOf(ctor) /\ call[1].stop = ctor_stop)

\* a call without overrides after a call with overrides
C8_Witness ==
    /\ ncalls = 2 /\ overridden
    /\ handed # <<>>
    /\ call[1].stopArg = <<>> /\ call[1].kwargs = NoKwargs
    /\ ret.kind = "text"

\* C9: the blocking path returns the backend's raw output, without the
\* leading echo of the prompt when there is one, cut immediately before the
\* first occurrence of any stop string; the result contains no stop string.
C9_BlockingCutsAtFirstStop ==
    ret.kind = "text" =>
        LET body == RemovePrefix(call[1].raw, call[1].prompt)
        IN /\ ret.text = CutAtFirst(body, MatchStarts(body, call[1].stop))
           /\ \A k \in 1..Len(call[1].stop) : ~Contains(ret.text, call[1].stop[k])


-----------------------------------------------------------------------------
(* Claims about the streaming session (SpecStream) *)

\* the session is over for the caller
StreamOver == c_pc \in {"stopped", "exhausted"}

\* C3: for the same prompt, stop list and generated ids, the concatenation of
\* what the streaming path yields equals the string the blocking path returns
C3_StreamEqualsBlocking ==
    (StreamOver /\ trd # "failed")
        => Concat(yielded) = BlockingText(s_prompt, s_script, s_stop)

\* C4: when the worker has failed and neither a pull nor the worker can take a
\* step any more, the consumer is in an error state (unless the truncator had
\* already ended the stream at a stop string or the caller had stopped
\* iterating): it does not wait forever and has not ended cleanly
C4_WorkerFailureObserved ==
    (trd = "failed" /\ c_pc \notin {"stopped", "abandoned"} /\ ~ENABLED (Pulling \/ Worker)) => c_pc = "error"

QueueTexts(q) == [i \in 1..Len(SelectSeq(q, LAMBDA x : ~x.end)) |-> SelectSeq(q, LAMBDA x : ~x.end)[i].text]

\* C5: under every interleaving, what the consumer received followed by the
\* increments still in the queue is what the worker produced, in order, and
\* the stop signal is observed only when every increment has been received
C5_FifoDelivery ==
    /\ received \o QueueTexts(text_queue) = produced
    /\ c_pc \in {"join", "last", "exhausted"} => received = produced

\* C5 witness: the consumer has received the first increment while the worker
\* is two items ahead, and the first two increments differ
C5_Witness ==
    /\ Len(received) = 1
    /\ Len(text_queue) >= 2
    /\ produced[1] # produced[2]

Detecting(incs) ==
    LET D == {n \in 0..Len(incs) : MatchStarts(Concat(SubSeq(incs, 1, n)), s_stop) # {}}
    IN IF D = {} THEN Len(incs) ELSE SetMin(D)

C11_AbandonedWorkerNotBlocked ==
    c_pc = "abandoned" => (c_pc # "error" /\ (trd \in {"finished", "failed"} \/ ENABLED Worker))

-----------------------------------------------------------------------------
(* Claims about the construction of the matcher (SpecStop) *)

\* the candidate set of some stop string is empty: no head or tail trimming of
\* its encoding, the untrimmed encoding included, decodes to the stop string
NoCandidate ==
    \E k \in 1..Len(enc) :
        \A i \in 0..Len(enc[k]) :
            /\ decode(PyFrom(enc[k], i)) # stopwords[k]
            /\ decode(SubSeq(enc[k], 1, Len(enc[k]) - i)) # stopwords[k]

\* C12: when a stop string has no candidate, the construction of the matcher
\* signals InvalidStopSequence
C12_NoCandidateInvalidStopSequence ==
    (ksc # "new" /\ NoCandidate) => ksc = "InvalidStopSequence"

-----------------------------------------------------------------------------
(* Claims about the validation of the generation parameters (SpecOpts) *)

\* temperature >= 0, max_new_tokens > 0, top_p in (0, 1], top_k >= 1
InRange(o) ==
    /\ o.temperature >= 0
    /\ o.max_new_tokens > 0
    /\ o.top_p > 0 /\ o.top_p <= 100
    /\ o.top_k >= 1

\* the parameters of the latest call: the override when given, the
\* construction-time value otherwise
Requested ==
    [k \in {"temperature", "max_new_tokens", "top_p", "top_k"} |->
        IF Given(call[1].kwargs, k) THEN call[1].kwargs[k][1] ELSE ctor[k]]

\* C13: a call whose parameters, from the construction or from its overrides,
\* are out of range raises InvalidOptions, and the backend is never invoked
\* with an out-of-range value
C13_OutOfRangeRejected ==
    call # <<>> =>
        /\ ~InRange(Requested) => ret = Raised("InvalidOptions")
        /\ (handed # <<>> /\ ret.kind \in {"text", "iterator"}) => InRange(handed[1])

-----------------------------------------------------------------------------
(* Claims about the life of the worker (SpecStream, SpecStreamFair) *)

\* C14 as stated: the stream is never over while its worker is still running
C14_NeverOverWhileWorkerRuns ==
    StreamOver => trd \notin {"running", "ended"}

\* C14 amended: a stream that ends because the worker's output is exhausted
\* ends after the worker has finished, and once the worker has finished the
\* iteration of a caller that keeps pulling eventually terminates
C14_DrainedAfterWorkerFinished ==
    /\ [](c_pc = "exhausted" => trd = "finished")
    /\ (trd = "finished" ~> (StreamOver \/ c_pc = "abandoned"))

\* C14 witness: the stream ended by exhaustion, with the worker finished and
\* all it produced received
C14_Witness ==
    /\ c_pc = "exhausted"
    /\ trd = "finished"
    /\ Len(received) >= 2

\* C15: once the call has returned its iterator the worker has been launched,
\* whether or not the caller has pulled
C15_WorkerLaunchedAtReturn ==
    trd # "created"

-----------------------------------------------------------------------------
(* Claims about the tools (SpecTool) *)

\* C16: a run of WebSearchTool with a chat history and no prompt template
\* raises ValueError, whatever generate_query and return_type are, without
\* having searched and with the vector database as it was
C16_HistoryWithoutTemplateRaises ==
    (t_run # <<>> /\ t_run[1].tool = "web" /\ t_run[1].args.history /\ ~t_run[1].args.prompt_template)
        => /\ t_ret = "ValueError"
           /\ searches = t_run[1].searches_before
           /\ vectordb = t_run[1].db_before

====
